---- MODULE Spec2Model ----
(***************************************************************************)
(* Model of scoutcloud's StoppingTask (logic/jobs/stopping.rs): the job    *)
(* that stops a running deployment through a GitHub cleanup workflow and   *)
(* reconciles the outcome into the persisted deployment row.               *)
(*                                                                         *)
(* Every `.await` of run / github_stop_and_wait is one action, so that a   *)
(* crash or a second invocation can fall between any two of them.  The     *)
(* storage layer and the GitHub client answer nondeterministically.        *)
(***************************************************************************)
EXTENDS Integers, Sequences, FiniteSets, TLC

\* ------------------------------------------------------------------ bounds
\* Number of times the runner invokes the task (first run plus retries).
MaxInvocations == 2
\* Deployment ids a task may carry; only the ids of ExistingIds have a row.
MaxDeploymentId == 2

\* ------------------------------------------------------- program constants
\* Seconds.
DEFAULT_WORKFLOW_TIMEOUT == 10 * 60
DEFAULT_WORKFLOW_CHECK_INTERVAL == 5

DeploymentStatusType ==
    {"Created", "Pending", "Running", "Stopping", "Stopped", "Failed"}

\* DeployError kinds that can reach run's `result`.
DeployError == {"Db", "ExternalCallFailed", "ExternalRunFailed", "Timeout"}
ExternalErrors == {"ExternalCallFailed", "ExternalRunFailed", "Timeout"}

\* Option<String> of the error column: None, or a text (a sequence of parts).
None == <<>>
PriorError == <<"prior error">>

Invocations == 1 .. MaxInvocations
TaskIds == 1 .. MaxDeploymentId
\* The row the test fixture provides (running_deployment_id = 1).
ExistingIds == {1}

\* StoppingTask::from_deployment_id
from_deployment_id(deployment_id) ==
    [deployment_id |-> deployment_id,
     workflow_timeout |-> DEFAULT_WORKFLOW_TIMEOUT,
     workflow_check_interval |-> DEFAULT_WORKFLOW_CHECK_INTERVAL]

\* The task built by tests::stopping_task_works.
TestTask ==
    [deployment_id |-> 1, workflow_timeout |-> 10, workflow_check_interval |-> 5]

StoppingTask == {from_deployment_id(id) : id \in TaskIds} \cup {TestTask}

VARIABLES
    task,         \* the serialized StoppingTask the runner holds
    deployments,  \* persisted rows: id -> [status, error]
    pc,           \* per invocation: the await it is at
    model,        \* per invocation: deployment.model as loaded (or NoModel)
    result,       \* per invocation: `result` of line 56, "Ok"/error kind/"none"
    returned,     \* per invocation: what run returned: "none", "Ok", "Err"
    log,          \* per invocation: storage and GitHub calls made and the
                  \* status matched on, in order, as <<operation, outcome>>
    elapsed,      \* per invocation: seconds spent in the wait
    polls         \* per invocation: workflow status queries made by the wait

vars == <<task, deployments, pc, model, result, returned, log, elapsed, polls>>

NoModel == [status |-> "none", error |-> None]

InFlight == {"get", "get_instance", "update_status", "cleanup_via_github",
             "wait_for_success_workflow", "mark_as_finished", "mark_as_error"}

Init ==
    /\ task \in StoppingTask
    /\ deployments \in [ExistingIds ->
                          [status : DeploymentStatusType,
                           error : {None, PriorError}]]
    /\ pc = [i \in Invocations |-> "idle"]
    /\ model = [i \in Invocations |-> NoModel]
    /\ result = [i \in Invocations |-> "none"]
    /\ returned = [i \in Invocations |-> "none"]
    /\ log = [i \in Invocations |-> <<>>]
    /\ elapsed = [i \in Invocations |-> 0]
    /\ polls = [i \in Invocations |-> 0]

\* ------------------------------------------------------------- history log
Logged(i, op, outcome) == log' = [log EXCEPT ![i] = Append(@, <<op, outcome>>)]
Has(i, op, outcome) == \E k \in 1 .. Len(log[i]) : log[i][k] = <<op, outcome>>
Did(i, op) == \E k \in 1 .. Len(log[i]) : log[i][k][1] = op
Before(i, e1, e2) ==
    \E k1, k2 \in 1 .. Len(log[i]) : k1 < k2 /\ log[i][k1] = e1 /\ log[i][k2] = e2

\* ------------------------------------------------------------- the runner
\* The runner dequeues the task and calls run; at most `limit` runs at once.
Invoke(i, limit) ==
    /\ pc[i] = "idle"
    /\ \A j \in Invocations : j < i => pc[j] # "idle"
    /\ Cardinality({j \in Invocations : pc[j] \in InFlight}) < limit
    /\ pc' = [pc EXCEPT ![i] = "get"]
    /\ UNCHANGED <<task, deployments, model, result, returned, log, elapsed, polls>>

runner_invoke(i) == Invoke(i, 1)

runner_invoke_concurrent(i) == Invoke(i, 2)

\* The worker process dies in the middle of run.
Crash(i) ==
    /\ pc[i] \in InFlight
    /\ pc' = [pc EXCEPT ![i] = "crashed"]
    /\ UNCHANGED <<task, deployments, model, result, returned, log, elapsed, polls>>

\* run returns r to the runner.
Return(i, r) ==
    /\ pc' = [pc EXCEPT ![i] = "returned"]
    /\ returned' = [returned EXCEPT ![i] = r]

\* ---------------------------------------------------- storage and GitHub
\* Deployment::get: the row of the id, when there is one.
Deployment_get(id) ==
    IF id \in DOMAIN deployments THEN deployments[id] ELSE NoModel

\* Deployment::update_status: writes the status column.
update_status(row, status) == [row EXCEPT !.status = status]

\* Deployment::mark_as_finished: Stopped, and no error.
mark_as_finished(row) == [row EXCEPT !.status = "Stopped", !.error = None]

\* Deployment::mark_as_error: Failed, with the text.
mark_as_error(row, text) == [row EXCEPT !.status = "Failed", !.error = text]

\* What one poll of the workflow run can report.
WorkflowStatus == {"Pending", "Succeeded", "Failed"}

\* GithubClient::wait_for_success_workflow, one iteration: query the run; on
\* Pending sleep one interval and then look at the deadline.
\* Gives <<outcome, elapsed>>, outcome "continue" when the loop goes on.
wait_iteration(status, spent, timeout, interval) ==
    CASE status = "Succeeded" -> <<"ok", spent>>
      [] status = "Failed" -> <<"ExternalRunFailed", spent>>
      [] OTHER ->
           IF spent + interval > timeout
           THEN <<"Timeout", spent + interval>>
           ELSE <<"continue", spent + interval>>

\* Bug: the message leaves the error out.
format_error_NoCause(err) == <<"failed to stop deployment: ">>

\* format!("failed to stop deployment: {}", err)
format_error(err) == <<"failed to stop deployment: ", err>>

\* Bug: a deployment already in Stopping is stopped again.
StatusIsStoppable_AlsoStopping(status) == status \in {"Running", "Stopping"}

\* The arm of `match deployment.model.status` that stops the deployment.
StatusIsStoppable(status) == status = "Running"

\* ---------------------------------------------------------- StoppingTask::run
\* Deployment::get(db, self.deployment_id).await.map_err(DeployError::Db)?
run_get_deployment(i) ==
    /\ pc[i] = "get"
    /\ \E ok \in BOOLEAN :
         IF ok /\ task.deployment_id \in DOMAIN deployments
         THEN /\ model' = [model EXCEPT ![i] = Deployment_get(task.deployment_id)]
              /\ pc' = [pc EXCEPT ![i] = "get_instance"]
              /\ Logged(i, "get", "ok")
              /\ UNCHANGED returned
         ELSE /\ Return(i, "Err")
              /\ Logged(i, "get", IF ok THEN "NotFound" ELSE "Db")
              /\ UNCHANGED model
    /\ UNCHANGED <<task, deployments, result, elapsed, polls>>

\* Bug: the error of get_instance is dropped and run goes on to the match.
run_get_instance_ErrorIgnored(i) ==
    /\ pc[i] = "get_instance"
    /\ \E ok \in BOOLEAN :
         /\ log' = [log EXCEPT ![i] = @ \o
                       <<<<"get_instance", IF ok THEN "ok" ELSE "Db">>,
                         <<"match", model[i].status>>>>]
         /\ IF StatusIsStoppable(model[i].status)
            THEN /\ pc' = [pc EXCEPT ![i] = "update_status"]
                 /\ UNCHANGED returned
            ELSE Return(i, "Ok")
    /\ UNCHANGED <<task, deployments, model, result, elapsed, polls>>

\* deployment.get_instance(db).await.map_err(DeployError::Db)?  and then the
\* match on the loaded status.
run_get_instance(i) ==
    /\ pc[i] = "get_instance"
    /\ \E ok \in BOOLEAN :
         IF ~ok
         THEN /\ Return(i, "Err")
              /\ Logged(i, "get_instance", "Db")
         ELSE /\ log' = [log EXCEPT ![i] = @ \o <<<<"get_instance", "ok">>,
                                                   <<"match", model[i].status>>>>]
              /\ IF StatusIsStoppable(model[i].status)
                 THEN /\ pc' = [pc EXCEPT ![i] = "update_status"]
                      /\ UNCHANGED returned
                 ELSE Return(i, "Ok")
    /\ UNCHANGED <<task, deployments, model, result, elapsed, polls>>

\* Bug: run applies `?` to the result of github_stop_and_wait, so the error
\* goes to the runner and nothing is reconciled.
Propagate_ToRunner(i, err) ==
    /\ result' = [result EXCEPT ![i] = err]
    /\ pc' = [pc EXCEPT ![i] = "returned"]

\* A step of github_stop_and_wait failed with err: `?` hands it to run, whose
\* `if let Err(err) = result` goes on to mark_as_error.
Propagate(i, err) ==
    /\ result' = [result EXCEPT ![i] = err]
    /\ pc' = [pc EXCEPT ![i] = "mark_as_error"]

\* Bug: the `?` after update_status is missing, a failed write is ignored.
github_stop_and_wait_update_status_Unchecked(i) ==
    /\ pc[i] = "update_status"
    /\ \E ok \in BOOLEAN :
         /\ IF ok
            THEN /\ deployments' = [deployments EXCEPT ![task.deployment_id] =
                                       update_status(@, "Stopping")]
                 /\ model' = [model EXCEPT ![i] = update_status(@, "Stopping")]
            ELSE UNCHANGED <<deployments, model>>
         /\ pc' = [pc EXCEPT ![i] = "cleanup_via_github"]
         /\ Logged(i, "update_status", IF ok THEN "ok" ELSE "Db")
    /\ UNCHANGED <<task, result, returned, elapsed, polls>>

\* A Stopping write that persists only while the row is still Running (a
\* compare-and-set on the status), failing like a storage error otherwise.
github_stop_and_wait_update_status_CompareAndSet(i) ==
    /\ pc[i] = "update_status"
    /\ \E ok \in BOOLEAN :
         IF ok /\ deployments[task.deployment_id].status = "Running"
         THEN /\ deployments' = [deployments EXCEPT ![task.deployment_id] =
                                    update_status(@, "Stopping")]
              /\ model' = [model EXCEPT ![i] = update_status(@, "Stopping")]
              /\ pc' = [pc EXCEPT ![i] = "cleanup_via_github"]
              /\ Logged(i, "update_status", "ok")
              /\ UNCHANGED result
         ELSE /\ Propagate(i, "Db")
              /\ Logged(i, "update_status", "Db")
              /\ UNCHANGED <<deployments, model>>
    /\ UNCHANGED <<task, returned, elapsed, polls>>

\* deployment.update_status(db, DeploymentStatusType::Stopping).await?
github_stop_and_wait_update_status(i) ==
    /\ pc[i] = "update_status"
    /\ \E ok \in BOOLEAN :
         IF ok
         THEN /\ deployments' = [deployments EXCEPT ![task.deployment_id] =
                                    update_status(@, "Stopping")]
              /\ model' = [model EXCEPT ![i] = update_status(@, "Stopping")]
              /\ pc' = [pc EXCEPT ![i] = "cleanup_via_github"]
              /\ Logged(i, "update_status", "ok")
              /\ UNCHANGED result
         ELSE /\ Propagate(i, "Db")
              /\ Logged(i, "update_status", "Db")
              /\ UNCHANGED <<deployments, model>>
    /\ UNCHANGED <<task, returned, elapsed, polls>>

\* Bug: a cleanup call that failed is issued a second time.
github_stop_and_wait_cleanup_Retried(i) ==
    /\ pc[i] = "cleanup_via_github"
    /\ \E ok \in BOOLEAN :
         IF ok
         THEN /\ pc' = [pc EXCEPT ![i] = "wait_for_success_workflow"]
              /\ Logged(i, "cleanup_via_github", "ok")
              /\ UNCHANGED result
         ELSE /\ Logged(i, "cleanup_via_github", "ExternalCallFailed")
              /\ IF Did(i, "cleanup_via_github")
                 THEN Propagate(i, "ExternalCallFailed")
                 ELSE UNCHANGED <<pc, result>>
    /\ UNCHANGED <<task, deployments, model, returned, elapsed, polls>>

\* let run = instance.cleanup_via_github(github).await?
github_stop_and_wait_cleanup(i) ==
    /\ pc[i] = "cleanup_via_github"
    /\ \E ok \in BOOLEAN :
         IF ok
         THEN /\ pc' = [pc EXCEPT ![i] = "wait_for_success_workflow"]
              /\ Logged(i, "cleanup_via_github", "ok")
              /\ UNCHANGED result
         ELSE /\ Propagate(i, "ExternalCallFailed")
              /\ Logged(i, "cleanup_via_github", "ExternalCallFailed")
    /\ UNCHANGED <<task, deployments, model, returned, elapsed, polls>>

\* Bug: the `?` after the wait is missing, its error is ignored.
github_stop_and_wait_wait_Unchecked(i) ==
    /\ pc[i] = "wait_for_success_workflow"
    /\ \E status \in WorkflowStatus :
         LET step == wait_iteration(status, elapsed[i], task.workflow_timeout,
                                    task.workflow_check_interval)
         IN  /\ polls' = [polls EXCEPT ![i] = @ + 1]
             /\ elapsed' = [elapsed EXCEPT ![i] = step[2]]
             /\ IF step[1] = "continue"
                THEN UNCHANGED <<pc, log>>
                ELSE /\ pc' = [pc EXCEPT ![i] = "mark_as_finished"]
                     /\ Logged(i, "wait_for_success_workflow", step[1])
    /\ UNCHANGED <<task, deployments, model, result, returned>>

\* Bug: when the wait times out it is started over instead of giving up.
github_stop_and_wait_wait_Restarted(i) ==
    /\ pc[i] = "wait_for_success_workflow"
    /\ \E status \in WorkflowStatus :
         LET step == wait_iteration(status, elapsed[i], task.workflow_timeout,
                                    task.workflow_check_interval)
         IN  CASE step[1] = "continue" ->
                    /\ polls' = [polls EXCEPT ![i] = @ + 1]
                    /\ elapsed' = [elapsed EXCEPT ![i] = step[2]]
                    /\ UNCHANGED <<pc, result, log>>
               [] step[1] = "Timeout" ->
                    /\ polls' = [polls EXCEPT ![i] = 0]
                    /\ elapsed' = [elapsed EXCEPT ![i] = 0]
                    /\ UNCHANGED <<pc, result, log>>
               [] step[1] = "ok" ->
                    /\ polls' = [polls EXCEPT ![i] = @ + 1]
                    /\ elapsed' = [elapsed EXCEPT ![i] = step[2]]
                    /\ pc' = [pc EXCEPT ![i] = "mark_as_finished"]
                    /\ Logged(i, "wait_for_success_workflow", "ok")
                    /\ UNCHANGED result
               [] OTHER ->
                    /\ polls' = [polls EXCEPT ![i] = @ + 1]
                    /\ elapsed' = [elapsed EXCEPT ![i] = step[2]]
                    /\ Propagate(i, step[1])
                    /\ Logged(i, "wait_for_success_workflow", step[1])
    /\ UNCHANGED <<task, deployments, model, returned>>

\* Bug: the two Durations are passed in the wrong order.
github_stop_and_wait_wait_ArgsSwapped(i) ==
    /\ pc[i] = "wait_for_success_workflow"
    /\ \E status \in WorkflowStatus :
         LET step == wait_iteration(status, elapsed[i],
                                    task.workflow_check_interval,
                                    task.workflow_timeout)
         IN  /\ polls' = [polls EXCEPT ![i] = @ + 1]
             /\ elapsed' = [elapsed EXCEPT ![i] = step[2]]
             /\ CASE step[1] = "continue" -> UNCHANGED <<pc, result, log>>
                  [] step[1] = "ok" ->
                       /\ pc' = [pc EXCEPT ![i] = "mark_as_finished"]
                       /\ Logged(i, "wait_for_success_workflow", "ok")
                       /\ UNCHANGED result
                  [] OTHER ->
                       /\ Propagate(i, step[1])
                       /\ Logged(i, "wait_for_success_workflow", step[1])
    /\ UNCHANGED <<task, deployments, model, returned>>

\* github.wait_for_success_workflow(&run, timeout, check_interval).await?
github_stop_and_wait_wait(i) ==
    /\ pc[i] = "wait_for_success_workflow"
    /\ \E status \in WorkflowStatus :
         LET step == wait_iteration(status, elapsed[i], task.workflow_timeout,
                                    task.workflow_check_interval)
         IN  /\ polls' = [polls EXCEPT ![i] = @ + 1]
             /\ elapsed' = [elapsed EXCEPT ![i] = step[2]]
             /\ CASE step[1] = "continue" -> UNCHANGED <<pc, result, log>>
                  [] step[1] = "ok" ->
                       /\ pc' = [pc EXCEPT ![i] = "mark_as_finished"]
                       /\ Logged(i, "wait_for_success_workflow", "ok")
                       /\ UNCHANGED result
                  [] OTHER ->
                       /\ Propagate(i, step[1])
                       /\ Logged(i, "wait_for_success_workflow", step[1])
    /\ UNCHANGED <<task, deployments, model, returned>>

\* Bug: github_stop_and_wait returns Ok(()) without calling mark_as_finished.
github_stop_and_wait_mark_as_finished_Skipped(i) ==
    /\ pc[i] = "mark_as_finished"
    /\ result' = [result EXCEPT ![i] = "Ok"]
    /\ Return(i, "Ok")
    /\ UNCHANGED <<task, deployments, model, log, elapsed, polls>>

\* deployment.mark_as_finished(db).await?; Ok(())  and, back in run, Ok(())
github_stop_and_wait_mark_as_finished(i) ==
    /\ pc[i] = "mark_as_finished"
    /\ \E ok \in BOOLEAN :
         IF ok
         THEN /\ deployments' = [deployments EXCEPT ![task.deployment_id] =
                                    mark_as_finished(@)]
              /\ model' = [model EXCEPT ![i] = mark_as_finished(@)]
              /\ result' = [result EXCEPT ![i] = "Ok"]
              /\ Return(i, "Ok")
              /\ Logged(i, "mark_as_finished", "ok")
         ELSE /\ Propagate(i, "Db")
              /\ Logged(i, "mark_as_finished", "Db")
              /\ UNCHANGED <<deployments, model, returned>>
    /\ UNCHANGED <<task, elapsed, polls>>

\* Bug: the `?` after mark_as_error is missing, run returns Ok(()) whether or
\* not the row was written.
run_mark_as_error_Unchecked(i) ==
    /\ pc[i] = "mark_as_error"
    /\ \E ok \in BOOLEAN :
         /\ IF ok
            THEN /\ deployments' = [deployments EXCEPT ![task.deployment_id] =
                                       mark_as_error(@, format_error(result[i]))]
                 /\ model' = [model EXCEPT ![i] =
                                 mark_as_error(@, format_error(result[i]))]
            ELSE UNCHANGED <<deployments, model>>
         /\ Return(i, "Ok")
         /\ Logged(i, "mark_as_error", IF ok THEN "ok" ELSE "Db")
    /\ UNCHANGED <<task, result, elapsed, polls>>

\* if let Err(err) = result { deployment.mark_as_error(db, format!(..)).await
\*     .map_err(DeployError::Db)? }; Ok(())
run_mark_as_error(i) ==
    /\ pc[i] = "mark_as_error"
    /\ \E ok \in BOOLEAN :
         IF ok
         THEN /\ deployments' = [deployments EXCEPT ![task.deployment_id] =
                                    mark_as_error(@, format_error(result[i]))]
              /\ model' = [model EXCEPT ![i] =
                              mark_as_error(@, format_error(result[i]))]
              /\ Return(i, "Ok")
              /\ Logged(i, "mark_as_error", "ok")
         ELSE /\ Return(i, "Err")
              /\ Logged(i, "mark_as_error", "Db")
              /\ UNCHANGED <<deployments, model>>
    /\ UNCHANGED <<task, result, elapsed, polls>>

run(i) ==
    \/ run_get_deployment(i)
    \/ run_get_instance(i)
    \/ github_stop_and_wait_update_status(i)
    \/ github_stop_and_wait_cleanup(i)
    \/ github_stop_and_wait_wait(i)
    \/ github_stop_and_wait_mark_as_finished(i)
    \/ run_mark_as_error(i)

\* One invocation at a time: the runner retries only after run has ended.
Next ==
    \E i \in Invocations :
        \/ runner_invoke(i)
        \/ run(i)
        \/ Crash(i)

Spec == Init /\ [][Next]_vars

\* The runner dispatches the task to two workers at once.
NextConcurrent ==
    \E i \in Invocations :
        \/ runner_invoke_concurrent(i)
        \/ run(i)
        \/ Crash(i)

\* Two workers are handed the task of tests::stopping_task_works.
InitConcurrent == Init /\ task = TestTask

SpecConcurrent == InitConcurrent /\ [][NextConcurrent]_vars

TypeOK ==
    /\ task \in StoppingTask
    /\ \A i \in Invocations :
         /\ pc[i] \in InFlight \cup {"idle", "returned", "crashed"}
         /\ returned[i] \in {"none", "Ok", "Err"}
         /\ result[i] \in DeployError \cup {"none", "Ok"}
         /\ elapsed[i] \in 0 .. (task.workflow_timeout + task.workflow_check_interval)

\* ------------------------------------------------------------------ claims
Done(i) == pc[i] = "returned"
\* The status run matched on (line 56).
Matched(i, status) == Has(i, "match", status)
Writes == {"update_status", "mark_as_finished", "mark_as_error"}
Wrote(i) == \E op \in Writes : Did(i, op)
StorageFailed(i) ==
    \E k \in 1 .. Len(log[i]) : log[i][k][2] \in {"Db", "NotFound"}
\* The persisted row of the task's deployment.
Row == deployments[task.deployment_id]
Contains(text, part) == \E k \in 1 .. Len(text) : text[k] = part

\* C1: an invocation that loads a deployment whose status is Created,
\* Pending, Failed, Stopped or Stopping returns Ok, attempts no write of the
\* row and issues no cleanup call (nor any poll).
C1_NotRunningIsNoOp ==
    \A i \in Invocations :
        (\E s \in DeploymentStatusType \ {"Running"} : Matched(i, s)) =>
            /\ Done(i)
            /\ returned[i] = "Ok"
            /\ ~Wrote(i)
            /\ ~Did(i, "cleanup_via_github")
            /\ polls[i] = 0
            /\ result[i] = "none"

C1_Witness ==
    \E i \in Invocations :
        /\ Matched(i, "Stopping")
        /\ Done(i)
        /\ returned[i] = "Ok"
        /\ Row.status = "Stopping"

\* C2: when run found the deployment Running, the cleanup workflow succeeded
\* within the timeout and no storage call failed, then once run has returned
\* the persisted status is Stopped and the error column is empty.
C2_SuccessIsStopped ==
    \A i \in Invocations :
        (/\ Done(i)
         /\ Matched(i, "Running")
         /\ Has(i, "wait_for_success_workflow", "ok")
         /\ ~StorageFailed(i)) =>
            /\ Row.status = "Stopped"
            /\ Row.error = None
            /\ returned[i] = "Ok"

C2_Witness ==
    \E i \in Invocations :
        /\ Done(i)
        /\ Matched(i, "Running")
        /\ Has(i, "wait_for_success_workflow", "ok")
        /\ Has(i, "mark_as_finished", "ok")
        /\ polls[i] > 1
        /\ Row = [status |-> "Stopped", error |-> None]

\* C3 as stated: when the cleanup workflow reports a terminal failure, then
\* once run has returned the persisted status is Failed and the error column
\* contains the reported cause.
C3_AsStated ==
    \A i \in Invocations :
        (Done(i) /\ Has(i, "wait_for_success_workflow", "ExternalRunFailed")) =>
            /\ Row.status = "Failed"
            /\ Contains(Row.error, "ExternalRunFailed")

\* C3, amended: the same provided the Failed write is persisted; when that
\* write fails the row stays in Stopping and run returns an error.
C3_RunFailureIsFailed ==
    \A i \in Invocations :
        (Done(i) /\ Has(i, "wait_for_success_workflow", "ExternalRunFailed")) =>
            IF Has(i, "mark_as_error", "ok")
            THEN /\ Row.status = "Failed"
                 /\ Contains(Row.error, "ExternalRunFailed")
            ELSE /\ Has(i, "mark_as_error", "Db")
                 /\ Row.status = "Stopping"
                 /\ returned[i] = "Err"

C3_Witness ==
    \E i \in Invocations :
        /\ Done(i)
        /\ Has(i, "wait_for_success_workflow", "ExternalRunFailed")
        /\ Has(i, "mark_as_error", "ok")
        /\ Row = [status |-> "Failed", error |-> format_error("ExternalRunFailed")]

\* C4 as stated: when every poll finds the workflow run pending until the
\* timeout has passed, the wait ends with a timeout failure, and once run has
\* returned the persisted status is Failed with an error naming the timeout.
C4_AsStated ==
    \A i \in Invocations :
        /\ pc[i] = "wait_for_success_workflow" =>
               elapsed[i] <= task.workflow_timeout
        /\ (Done(i) /\ Has(i, "wait_for_success_workflow", "Timeout")) =>
               /\ Row.status = "Failed"
               /\ Contains(Row.error, "Timeout")

\* C4, amended: the wait never goes on past the timeout, it ends with a
\* timeout failure once the time spent exceeds it, and after run has returned
\* the persisted status is Failed with an error naming the timeout provided
\* the Failed write is persisted; when that write fails the row stays in
\* Stopping and run returns an error.
C4_TimeoutIsFailed ==
    \A i \in Invocations :
        /\ pc[i] = "wait_for_success_workflow" =>
               elapsed[i] <= task.workflow_timeout
        /\ Has(i, "wait_for_success_workflow", "Timeout") =>
               /\ elapsed[i] > task.workflow_timeout
               /\ pc[i] \in {"mark_as_error", "returned", "crashed"}
               /\ result[i] = "Timeout"
        /\ (Done(i) /\ Has(i, "wait_for_success_workflow", "Timeout")) =>
               IF Has(i, "mark_as_error", "ok")
               THEN /\ Row.status = "Failed"
                    /\ Contains(Row.error, "Timeout")
               ELSE /\ Has(i, "mark_as_error", "Db")
                    /\ Row.status = "Stopping"
                    /\ returned[i] = "Err"

C4_Witness ==
    \E i \in Invocations :
        /\ Done(i)
        /\ Has(i, "wait_for_success_workflow", "Timeout")
        /\ elapsed[i] > task.workflow_timeout
        /\ Row = [status |-> "Failed", error |-> format_error("Timeout")]

\* C5: every change this job makes to the persisted status is
\* Running -> Stopping, Stopping -> Stopped or Stopping -> Failed, whatever
\* storage write or GitHub step fails, and it is made by an invocation that
\* found the deployment Running.
C5_OnlyStoppingPathTransitions ==
    [][\A id \in ExistingIds :
          deployments'[id].status # deployments[id].status =>
              /\ <<deployments[id].status, deployments'[id].status>> \in
                     {<<"Running", "Stopping">>, <<"Stopping", "Stopped">>,
                      <<"Stopping", "Failed">>}
              /\ \E i \in Invocations :
                     log'[i] # log[i] /\ Matched(i, "Running")]_vars

\* C6: a cleanup call is issued only by an invocation whose Stopping write
\* has succeeded before it, and an invocation whose Stopping write failed
\* issues no cleanup call.
C6_StoppingPersistedBeforeCleanup ==
    \A i \in Invocations :
        /\ pc[i] = "cleanup_via_github" => Has(i, "update_status", "ok")
        /\ \A outcome \in {"ok", "ExternalCallFailed"} :
               Has(i, "cleanup_via_github", outcome) =>
                   Before(i, <<"update_status", "ok">>,
                          <<"cleanup_via_github", outcome>>)
        /\ Has(i, "update_status", "Db") =>
               /\ ~Did(i, "cleanup_via_github")
               /\ pc[i] # "cleanup_via_github"
               /\ polls[i] = 0

C6_Witness ==
    \E i, j \in Invocations :
        /\ Has(i, "update_status", "Db")
        /\ Done(i)
        /\ Before(j, <<"update_status", "ok">>, <<"cleanup_via_github", "ok">>)

\* C7 as stated: every error of the cleanup call, of the workflow run or of
\* the wait's timeout ends as a persisted Failed status with the cause text,
\* and run returns Ok to the runner.
C7_AsStated ==
    \A i \in Invocations :
        (Done(i) /\ result[i] \in ExternalErrors) =>
            /\ Row = [status |-> "Failed", error |-> format_error(result[i])]
            /\ returned[i] = "Ok"

\* C7, amended: every such error is caught in run and handed to
\* mark_as_error; when that write is persisted the row is Failed with the
\* cause text and run returns Ok, and when it is not run returns an error.
C7_ExternalErrorsAreReconciled ==
    \A i \in Invocations :
        /\ (result[i] \in ExternalErrors /\ pc[i] # "crashed") =>
               pc[i] \in {"mark_as_error", "returned"}
        /\ (Done(i) /\ result[i] \in ExternalErrors) =>
               \/ /\ Has(i, "mark_as_error", "ok")
                  /\ Row = [status |-> "Failed",
                            error |-> format_error(result[i])]
                  /\ returned[i] = "Ok"
               \/ /\ Has(i, "mark_as_error", "Db")
                  /\ returned[i] = "Err"

C7_Witness ==
    \E i \in Invocations :
        /\ Done(i)
        /\ result[i] = "ExternalCallFailed"
        /\ returned[i] = "Ok"
        /\ Row = [status |-> "Failed",
                  error |-> format_error("ExternalCallFailed")]

\* C8: after a successful load, run returns an error exactly when the
\* mark_as_error write failed: that failure is returned as an error, and no
\* other failure is.
C8_OnlyFailedWriteIsFatal ==
    \A i \in Invocations :
        (Done(i) /\ Has(i, "get_instance", "ok")) =>
            (returned[i] = "Err" <=> Has(i, "mark_as_error", "Db"))

C8_Witness ==
    \E i, j \in Invocations :
        /\ Done(i) /\ Has(i, "mark_as_error", "Db") /\ returned[i] = "Err"
        /\ Done(j) /\ Has(j, "mark_as_finished", "Db") /\ returned[j] = "Ok"

\* C9: when loading the deployment or its instance fails (unknown id or
\* storage failure), run returns an error at once, with no write and no
\* cleanup call.
C9_LoadFailureAborts ==
    \A i \in Invocations :
        (\/ Has(i, "get", "Db")
         \/ Has(i, "get", "NotFound")
         \/ Has(i, "get_instance", "Db")) =>
            /\ Done(i)
            /\ returned[i] = "Err"
            /\ ~Wrote(i)
            /\ ~Did(i, "cleanup_via_github")
            /\ ~Did(i, "match")
            /\ polls[i] = 0

C9_Witness ==
    \E i, j \in Invocations :
        /\ Has(i, "get_instance", "Db") /\ returned[i] = "Err"
        /\ Has(j, "get", "Db") /\ returned[j] = "Err"
        /\ Row.status = "Running"

\* C10: every storage failure during an invocation (load, Stopping write,
\* Stopped write, Failed write) makes run return an error.
C10_StorageFailureIsFatal ==
    \A i \in Invocations :
        (Done(i) /\ StorageFailed(i)) => returned[i] = "Err"

\* Number of times invocation i made the call op with the given outcome.
Count(i, op, outcome) ==
    Cardinality({k \in 1 .. Len(log[i]) : log[i][k] = <<op, outcome>>})
Calls(i, op) == Cardinality({k \in 1 .. Len(log[i]) : log[i][k][1] = op})
TerminalWrites(i) ==
    Count(i, "mark_as_finished", "ok") + Count(i, "mark_as_error", "ok")

\* C11 as stated: an invocation that found the deployment Running and has
\* returned has written Stopping exactly once, a terminal status (Stopped or
\* Failed) exactly once, and issued at most one cleanup call.
C11_AsStated ==
    \A i \in Invocations :
        (Done(i) /\ Matched(i, "Running")) =>
            /\ Count(i, "update_status", "ok") = 1
            /\ TerminalWrites(i) = 1
            /\ Calls(i, "cleanup_via_github") <= 1

\* C11, amended: such an invocation attempts the Stopping write exactly once,
\* issues at most one cleanup call and persists at most one terminal status;
\* it persists exactly one terminal status when run returns Ok and none when
\* run returns an error, and when no storage write failed it has persisted
\* Stopping once and a terminal status once.
C11_WritesAndCalls ==
    \A i \in Invocations :
        (Done(i) /\ Matched(i, "Running")) =>
            /\ Calls(i, "update_status") = 1
            /\ Calls(i, "cleanup_via_github") <= 1
            /\ Calls(i, "mark_as_finished") <= 1
            /\ Calls(i, "mark_as_error") <= 1
            /\ TerminalWrites(i) = (IF returned[i] = "Ok" THEN 1 ELSE 0)
            /\ ~StorageFailed(i) =>
                   /\ Count(i, "update_status", "ok") = 1
                   /\ TerminalWrites(i) = 1

C11_Witness ==
    \E i, j \in Invocations :
        /\ Done(i) /\ Matched(i, "Running") /\ ~StorageFailed(i)
        /\ Has(i, "cleanup_via_github", "ExternalCallFailed")
        /\ Count(i, "update_status", "ok") = 1 /\ TerminalWrites(i) = 1
        /\ Done(j) /\ Matched(j, "Running") /\ Has(j, "mark_as_error", "Db")
        /\ TerminalWrites(j) = 0

\* ---------------------------------------------------------------- fairness
\* The runner executes every task it holds, and a run that is not killed goes
\* on from each await (storage, GitHub and the sleep all answer in the end).
Fairness ==
    \A i \in Invocations : WF_vars(runner_invoke(i)) /\ WF_vars(run(i))

FairSpec == Spec /\ Fairness

\* The persisted status of the task's deployment, "none" when it has no row.
RowStatus ==
    IF task.deployment_id \in DOMAIN deployments THEN Row.status ELSE "none"

\* C12: once an invocation has persisted Stopping the row does not stay in
\* Stopping: when a later retry of the task has run to a successful return
\* (after which the runner holds the task no more), the row is Stopped or
\* Failed, whatever the GitHub call, the wait and the storage writes answered.
C12_StoppingIsLeft ==
    \A i, j \in Invocations :
        (/\ i < j
         /\ Has(i, "update_status", "ok")
         /\ Done(j)
         /\ returned[j] = "Ok") =>
            RowStatus \in {"Stopped", "Failed"}

\* C13: the job writes Stopped only after the wait has confirmed the cleanup
\* run: an invocation that is about to write Stopped, or has attempted it,
\* has persisted Stopping, then issued the cleanup call, then seen the wait
\* return success; and the row turns Stopped only by such an invocation.
C13_StoppedMeansConfirmed ==
    \A i \in Invocations :
        /\ (pc[i] = "mark_as_finished" \/ Did(i, "mark_as_finished")) =>
               /\ Before(i, <<"update_status", "ok">>,
                         <<"cleanup_via_github", "ok">>)
               /\ Before(i, <<"cleanup_via_github", "ok">>,
                         <<"wait_for_success_workflow", "ok">>)
               /\ ~Has(i, "wait_for_success_workflow", "ExternalRunFailed")
               /\ ~Has(i, "wait_for_success_workflow", "Timeout")
        /\ Has(i, "mark_as_finished", "ok") =>
               Before(i, <<"wait_for_success_workflow", "ok">>,
                      <<"mark_as_finished", "ok">>)

C13_Witness ==
    \E i \in Invocations :
        /\ Has(i, "mark_as_finished", "ok")
        /\ Has(i, "wait_for_success_workflow", "ok")
        /\ RowStatus = "Stopped"

\* C14: whenever the job writes Failed, the teardown was attempted and did
\* not complete: the invocation that wrote Failed has issued the cleanup call
\* and its wait has not returned success.
C14_FailedMeansAttempted ==
    \A i \in Invocations :
        Has(i, "mark_as_error", "ok") =>
            /\ Did(i, "cleanup_via_github")
            /\ ~Has(i, "wait_for_success_workflow", "ok")

\* C15: nothing in the job keeps a second invocation from stopping the same
\* deployment: an invocation that loaded Running goes on from the match,
\* its Stopping write can be persisted and its cleanup call can be issued
\* whatever the persisted status has become and whatever the other
\* invocation has done;  C15_Witness is the state the claim names.
C15_NothingPreventsSecondTeardown ==
    \A i \in Invocations :
        /\ (pc[i] = "get_instance" /\ model[i].status = "Running") =>
               ENABLED (run_get_instance(i) /\ pc'[i] = "update_status")
        /\ pc[i] = "update_status" =>
               /\ Matched(i, "Running")
               /\ ENABLED (/\ github_stop_and_wait_update_status(i)
                           /\ pc'[i] = "cleanup_via_github")
        /\ pc[i] = "cleanup_via_github" =>
               ENABLED (/\ github_stop_and_wait_cleanup(i)
                        /\ Has(i, "cleanup_via_github", "ok")')

\* Both invocations have passed the status check on Running (so each loaded
\* the row before the other persisted Stopping) and both have issued the
\* cleanup call.
C15_Witness ==
    \E i, j \in Invocations :
        /\ i # j
        /\ Matched(i, "Running") /\ Matched(j, "Running")
        /\ Has(i, "cleanup_via_github", "ok")
        /\ Has(j, "cleanup_via_github", "ok")

\* Invocation i was killed after its cleanup call had started the workflow
\* run and before its wait returned; j is a later retry that loaded the row
\* and has returned.
CrashedInWaitThenRetried(i, j) ==
    /\ i < j
    /\ pc[i] = "crashed"
    /\ Has(i, "cleanup_via_github", "ok")
    /\ ~Did(i, "wait_for_success_workflow")
    /\ Done(j)
    /\ Has(j, "get_instance", "ok")

\* C16 as stated: after such a crash, the retry issues a second cleanup call.
C16_AsStated ==
    \A i, j \in Invocations :
        CrashedInWaitThenRetried(i, j) => Did(j, "cleanup_via_github")

\* C16, amended: after such a crash the retry finds the row in Stopping,
\* returns Ok without any write or cleanup call, and the row stays Stopping.
C16_RetryAfterCrashIsNoOp ==
    \A i, j \in Invocations :
        CrashedInWaitThenRetried(i, j) =>
            /\ Matched(j, "Stopping")
            /\ ~Did(j, "cleanup_via_github")
            /\ ~Wrote(j)
            /\ returned[j] = "Ok"
            /\ RowStatus = "Stopping"

C16_Witness ==
    \E i, j \in Invocations :
        /\ CrashedInWaitThenRetried(i, j)
        /\ polls[i] > 0
        /\ returned[j] = "Ok"
        /\ RowStatus = "Stopping"

\* The most queries a wait can make: one at 0 s and one after every sleep
\* that ends within the timeout.
MaxPolls == (task.workflow_timeout \div task.workflow_check_interval) + 1

\* How the wait of invocation i ended.
WaitOutcome(i, outcome) == Has(i, "wait_for_success_workflow", outcome)

C18_SucceededOnNthPoll ==
    \A i \in Invocations :
        /\ pc[i] = "wait_for_success_workflow" =>
               /\ elapsed[i] = polls[i] * task.workflow_check_interval
               /\ elapsed[i] <= task.workflow_timeout
        /\ WaitOutcome(i, "ok") =>
               /\ polls[i] \in 1 .. MaxPolls
               /\ elapsed[i] = (polls[i] - 1) * task.workflow_check_interval
               /\ elapsed[i] <= task.workflow_timeout
               /\ result[i] \notin ExternalErrors
               /\ \/ pc[i] \in {"mark_as_finished", "crashed"}
                  \/ Did(i, "mark_as_finished")
        /\ WaitOutcome(i, "Timeout") =>
               /\ polls[i] = MaxPolls
               /\ elapsed[i] = MaxPolls * task.workflow_check_interval

\* Succeeded on the third query of the test's task, 10 s into a 10 s timeout.
C18_Witness ==
    \E i \in Invocations :
        /\ task = TestTask
        /\ WaitOutcome(i, "ok")
        /\ polls[i] = 3
        /\ elapsed[i] = 10
        /\ Has(i, "mark_as_finished", "ok")

\* C19: when run found the deployment Running and returned Ok, the persisted
\* status is Stopped or Failed, whatever the Stopping write, the cleanup
\* call, the wait and the Stopped write answered.
C19_OkMeansTerminal ==
    \A i \in Invocations :
        (Done(i) /\ Matched(i, "Running") /\ returned[i] = "Ok") =>
            /\ RowStatus \in {"Stopped", "Failed"}
            /\ RowStatus = "Stopped" <=> Has(i, "mark_as_finished", "ok")
            /\ RowStatus = "Failed" <=> Has(i, "mark_as_error", "ok")

C19_Witness ==
    \E i, j \in Invocations :
        /\ Done(i) /\ Matched(i, "Running") /\ returned[i] = "Err"
        /\ Has(i, "update_status", "Db")
        /\ Done(j) /\ Matched(j, "Running") /\ returned[j] = "Ok"
        /\ Has(j, "mark_as_finished", "Db")
        /\ RowStatus = "Failed"
====
